---- MODULE Spec2Model ----
(***************************************************************************)
(* Model of yt-creator-scraper: the discovery job (youtube_scraper.py) and *)
(* the enrichment job (viewstats_scraper.py) over one persisted CSV store. *)
(***************************************************************************)
EXTENDS Integers, Sequences, FiniteSets, TLC

(* ------------------------------ bounds --------------------------------- *)
\* discovery runs in one behaviour
MaxRuns == 2
\* largest target_creators a run is started with
MaxTarget == 2
\* channels the remote result set holds in all
MaxCands == 2
\* smallest subscriber bound a run is started with
MinSubs == 2
\* width of the subscriber range a run is started with
SubsSpan == 1
\* rows of a short enrichment store
MaxStoreRows == 2
\* rows of the longest enrichment store
MaxLongRows == 21
\* enrichment runs in one behaviour
MaxEnrichRuns == 2
\* words in a niche keyword, and in a stored niche field, of a merge
MaxNicheWords == 2

(* ------------------------- program constants --------------------------- *)
\* youtube_scraper.py:264  max_pages = 15
max_pages == 15

(* ------------------------------ cells ---------------------------------- *)
\* pandas' missing value: what read_csv yields for an empty cell
NaN == "<NaN>"

\* str.lower() on the names the model uses
Lower(s) ==
    CASE s = "Bar" -> "bar"
      [] s = "Baz" -> "baz"
      [] s = "Gaming" -> "gaming"
      [] s = "Fitness" -> "fitness"
      [] OTHER -> s

\* str.upper() on the country codes the model uses
Upper(s) ==
    CASE s = "us" -> "US"
      [] s = "gr" -> "GR"
      [] OTHER -> s

\* a URL-valued cell: kind is the URL's shape, name its variable part.
\* An empty cell and pandas' NaN are cells of their own kinds.
Cell(kind, name) == [kind |-> kind, name |-> name]
EmptyCell == Cell("", "")
NaNCell == Cell("nan", "")
\* a cell holding plain text (the sentinels of ViewStats_Profile_URL)
Text(s) == Cell("text", s)
\* f'https://www.youtube.com/{custom_url}', custom_url starting with '@'
HandleURL(custom_url) == Cell("youtube/@", custom_url)
\* f'https://www.youtube.com/channel/{channel_id}'
ChannelIdURL(channel_id) == Cell("youtube/channel/", channel_id)

\* alphabetical rank of the lower-case niche words, for sorted()
WordRank(w) ==
    CASE w = "fitness" -> 1
      [] w = "gaming" -> 2
      [] OTHER -> 3

RECURSIVE SortedWords(_)
\* sorted(set_of_words) as a sequence
SortedWords(S) ==
    IF S = {} THEN <<>>
    ELSE LET m == CHOOSE x \in S : \A y \in S : WordRank(x) <= WordRank(y)
         IN  <<m>> \o SortedWords(S \ {m})

\* set(text.lower().split()): a niche field is a sequence of words
LowerWords(words) == {Lower(words[i]) : i \in 1..Len(words)}

(* ------------------------------ CSV ------------------------------------ *)
\* the cells pandas.read_csv turns into NaN (its default na_values, 'NA'
\* among them: the country code of Namibia)
ReadCell(c) == IF c \in {"", "N/A", "NA", NaN} THEN NaN ELSE c

\* the same for a URL-valued cell
ReadURLCell(c) == IF c \in {EmptyCell, Text("N/A"), NaNCell} THEN NaNCell ELSE c

\* DataFrame.to_csv writes NaN as the empty cell
WriteCell(c) == IF c = NaN THEN "" ELSE c

\* the same for a URL-valued cell
WriteURLCell(c) == IF c = NaNCell THEN EmptyCell ELSE c

TextColumns ==
    {"Username", "Country", "Channel_Image_URL",
     "Views_Last_28_Days", "Subs_Last_28_Days",
     "Estimated_Rev_Last_28_Days", "Long_Views", "Short_Views"}

URLColumns == {"Channel_URL", "ViewStats_Profile_URL"}

ReadRow(r) ==
    [c \in DOMAIN r |->
        IF c \in TextColumns THEN ReadCell(r[c])
        ELSE IF c \in URLColumns THEN ReadURLCell(r[c])
        ELSE r[c]]

WriteRow(r) ==
    [c \in DOMAIN r |->
        IF c \in TextColumns THEN WriteCell(r[c])
        ELSE IF c \in URLColumns THEN WriteURLCell(r[c])
        ELSE r[c]]

\* pd.read_csv(DATABASE_CSV) of the file's rows
read_csv(file) == [i \in 1..Len(file) |-> ReadRow(file[i])]

\* df.to_csv(DATABASE_CSV, index=False)
to_csv(df) == [i \in 1..Len(df) |-> WriteRow(df[i])]

(* --------------------------- discovery: pure --------------------------- *)
\* find_existing_channel as it would be if it returned the last match
find_existing_channel_last(username, channel_url, df) ==
    LET match == {i \in 1..Len(df) :
                     \/ (df[i].Username # NaN /\ Lower(df[i].Username) = Lower(username))
                     \/ df[i].Channel_URL = channel_url}
    IN  IF match # {} THEN CHOOSE i \in match : \A j \in match : i >= j
        ELSE 0

\* find_existing_channel as it would be if the caller's test were
\* `if existing_index:`: a match at the first row counts as no match
find_existing_channel_falsy(username, channel_url, df) ==
    LET match == {i \in 1..Len(df) :
                     \/ (df[i].Username # NaN /\ Lower(df[i].Username) = Lower(username))
                     \/ df[i].Channel_URL = channel_url}
        first == IF match # {} THEN CHOOSE i \in match : \A j \in match : i <= j
                 ELSE 0
    IN  IF first = 1 THEN 0 ELSE first

\* find_existing_channel: the first row matching by lower-cased username
\* or by exact URL; 0 stands for None
find_existing_channel(username, channel_url, df) ==
    LET match == {i \in 1..Len(df) :
                     \/ (df[i].Username # NaN /\ Lower(df[i].Username) = Lower(username))
                     \/ df[i].Channel_URL = channel_url}
    IN  IF match # {} THEN CHOOSE i \in match : \A j \in match : i <= j
        ELSE 0

\* add_niche_to_existing as it would be if the new words replaced the
\* field instead of being appended to it
add_niche_to_existing_replace(existing_niches, new_niche) ==
    IF existing_niches = <<>> THEN new_niche
    ELSE LET existing_words == LowerWords(existing_niches)
             new_words == LowerWords(new_niche)
             unique_new_words == new_words \ existing_words
         IN  IF unique_new_words # {}
             THEN SortedWords(unique_new_words)
             ELSE existing_niches

\* add_niche_to_existing: a blank field becomes the new niche; otherwise the
\* lower-cased words of the new niche not yet present are appended, sorted
add_niche_to_existing(existing_niches, new_niche) ==
    IF existing_niches = <<>> THEN new_niche
    ELSE LET existing_words == LowerWords(existing_niches)
             new_words == LowerWords(new_niche)
             unique_new_words == new_words \ existing_words
         IN  IF unique_new_words # {}
             THEN existing_niches \o SortedWords(unique_new_words)
             ELSE existing_niches

\* round(total_views / video_count, 2) in hundredths, 0 without videos
AvgViews(total_views, video_count) ==
    IF video_count > 0 THEN (total_views * 100) \div video_count ELSE 0

\* create_database_row: acquisition columns from the channel, the niche as
\* typed, every ViewStats column empty
create_database_row(channel_details, new_niche) ==
    [Username |-> channel_details.username,
     Subscribers |-> channel_details.subscribers,
     Total_Views |-> channel_details.total_views,
     Video_Count |-> channel_details.video_count,
     Avg_Views_Per_Video |->
         AvgViews(channel_details.total_views, channel_details.video_count),
     Country |-> channel_details.country,
     Channel_URL |-> channel_details.channel_url,
     Search_Niche |-> new_niche,
     Channel_Image_URL |-> channel_details.channel_image_url,
     Views_Last_28_Days |-> "",
     Subs_Last_28_Days |-> "",
     Estimated_Rev_Last_28_Days |-> "",
     Long_Views |-> "",
     Short_Views |-> "",
     ViewStats_Profile_URL |-> EmptyCell]

\* custom_url.startswith('@')
StartsWithAt(custom_url) == custom_url \in {"@foo"}

\* f"@{custom_url}"
AtPrefix(custom_url) == IF custom_url = "foo" THEN "@foo" ELSE custom_url

\* get_proper_channel_url: the handle URL when the channel has a custom
\* URL, the channel-id URL otherwise
get_proper_channel_url(channel_item) ==
    IF channel_item.customUrl # ""
    THEN IF StartsWithAt(channel_item.customUrl)
         THEN HandleURL(channel_item.customUrl)
         ELSE HandleURL(AtPrefix(channel_item.customUrl))
    ELSE ChannelIdURL(channel_item.id)

\* process_channel_data: None (ok = FALSE) when int() of a statistic
\* raises; otherwise the handle or the title as username, and the URL
process_channel_data(channel_item) ==
    IF ~channel_item.statistics_ok THEN [ok |-> FALSE]
    ELSE [ok |-> TRUE,
          username |->
              IF channel_item.customUrl # ""
              THEN IF ~StartsWithAt(channel_item.customUrl)
                   THEN AtPrefix(channel_item.customUrl)
                   ELSE channel_item.customUrl
              ELSE channel_item.title,
          subscribers |-> channel_item.subscriberCount,
          total_views |-> channel_item.viewCount,
          video_count |-> channel_item.videoCount,
          channel_id |-> channel_item.id,
          channel_url |-> get_proper_channel_url(channel_item),
          channel_image_url |-> channel_item.thumbnail,
          country |-> channel_item.country]

(* --------------------------- discovery: inputs ------------------------- *)
\* a channels().list item
Item(id, customUrl, title, ok, subs, videos, country) ==
    [id |-> id, customUrl |-> customUrl, title |-> title,
     statistics_ok |-> ok, subscriberCount |-> subs, viewCount |-> 10,
     videoCount |-> videos, thumbnail |-> "img", country |-> country]

MaxSubs == MinSubs + SubsSpan

\* the channels the remote can return: a handle channel at min_subs; a
\* titled channel from Namibia (country code NA) at max_subs; a second channel of the same title in other
\* case below the range; that channel renamed, above the range; one with
\* malformed statistics
Items ==
    {Item("UC1", "@foo", "Foo", TRUE, MinSubs, 4, "US"),
     Item("UC3", "", "Bar", TRUE, MaxSubs, 4, "NA"),
     Item("UC4", "", "bar", TRUE, MinSubs - 1, 0, "US"),
     Item("UC4", "", "Baz", TRUE, MaxSubs + 1, 4, "US"),
     Item("UC5", "foo", "Foo", FALSE, 0, 0, "US")}

\* the niche keywords a run is started with
Niches == {<<"gaming">>, <<"Gaming", "fitness">>}

\* the country filters a run is started with ("" is no filter)
CountryFilters == {"", "us"}

\* a stored row of a discovered channel, as to_csv leaves it
StoredRow(item, stored_niche, profile) ==
    [create_database_row(process_channel_data(item), stored_niche)
        EXCEPT !.ViewStats_Profile_URL = profile]

\* the stores a behaviour starts from: no two rows share a username or URL
Stores ==
    {<<>>,
     <<StoredRow(Item("UC1", "@foo", "Foo", TRUE, MinSubs, 4, "US"),
                 <<"gaming">>, Text("no viewstats page available"))>>,
     <<StoredRow(Item("UC3", "", "Bar", TRUE, MaxSubs, 4, "NA"),
                 <<"Fitness">>, EmptyCell),
       StoredRow(Item("UC4", "", "Baz", TRUE, MaxSubs + 1, 4, "US"),
                 <<>>, EmptyCell)>>,
     <<StoredRow(Item("UC4", "", "Baz", TRUE, MaxSubs + 1, 4, "US"),
                 <<>>, EmptyCell),
       StoredRow(Item("UC3", "", "Bar", TRUE, MaxSubs, 4, "NA"),
                 <<"Fitness">>, EmptyCell)>>}

\* sequences over S of length at most n
SeqsUpTo(S, n) == UNION {[1..k -> S] : k \in 0..n}

\* one page of the remote: what search().list and channels().list return
Page(kind, details, next) ==
    [kind |-> kind, details |-> details, next |-> next]

\* the remote result set: lead pages whose items yield no details, then the
\* channels cs cut into a page of k and a page of the rest (the last with
\* or without a next-page token), then maybe a failing call
MkRemote(lead, cs, k, lastNext, tail) ==
    [i \in 1..lead |-> Page("ok", <<>>, TRUE)]
    \o (IF cs = <<>> THEN <<>>
        ELSE IF k >= Len(cs) THEN <<Page("ok", cs, lastNext)>>
        ELSE <<Page("ok", SubSeq(cs, 1, k), TRUE),
               Page("ok", SubSeq(cs, k + 1, Len(cs)), lastNext)>>)
    \o (IF tail = "" THEN <<>> ELSE <<Page(tail, <<>>, FALSE)>>)

Remotes ==
    {MkRemote(0, cs, k, FALSE, "") :
        cs \in SeqsUpTo(Items, MaxCands), k \in 0..MaxCands}
    \cup
    {MkRemote(0, cs, MaxCands, TRUE, "") : cs \in [1..MaxCands -> Items]}
    \cup
    {MkRemote(lead, cs, 1, TRUE, "") :
        lead \in {0, max_pages - 1, max_pages}, cs \in SeqsUpTo(Items, 1)}
    \cup
    {MkRemote(0, cs, 1, TRUE, tail) :
        cs \in SeqsUpTo(Items, 1), tail \in {"search_error", "batch_error"}}

(* --------------------------- enrichment: pure -------------------------- *)
\* viewstats_scraper.py:368  save progress every 10 records
SAVE_EVERY == 10

\* Python's None
None == "<None>"

\* text.split('/')[0]: the first path segment
FirstSegment(text) == IF text = "foo/videos" THEN "foo" ELSE text

\* text.split('@')[1]: what follows the first '@'
AfterAt(text) ==
    CASE text = "@foo" -> "foo"
      [] text = "@foo/videos" -> "foo/videos"
      [] text = "@" -> ""
      [] OTHER -> text

\* element.text.strip()
Strip(text) == IF text = " 1.2M " THEN "1.2M" ELSE text

\* f"https://www.viewstats.com/{username}/channelytics"
ViewStatsURL(username) == Cell("viewstats", username)

\* get_channels_to_process: the original indices of the rows whose
\* ViewStats_Profile_URL is NaN, '' or 'N/A', in store order
\* get_channels_to_process as it would be if rows that met a webdriver
\* error were selected again
RECURSIVE SelectRetryFrom(_, _)
SelectRetryFrom(df, i) ==
    IF i > Len(df) THEN <<>>
    ELSE (IF df[i].ViewStats_Profile_URL \in
                {NaNCell, EmptyCell, Text("N/A"), Text("webdriver error")}
          THEN <<i>> ELSE <<>>) \o SelectRetryFrom(df, i + 1)

get_channels_to_process_retry(df) == SelectRetryFrom(df, 1)

RECURSIVE SelectFrom(_, _)
SelectFrom(df, i) ==
    IF i > Len(df) THEN <<>>
    ELSE (IF df[i].ViewStats_Profile_URL \in {NaNCell, EmptyCell, Text("N/A")}
          THEN <<i>> ELSE <<>>) \o SelectFrom(df, i + 1)

get_channels_to_process(df) == SelectFrom(df, 1)

\* extract_username_from_channel_url as it would be if the id of a
\* '/channel/' URL were taken for a handle
extract_username_from_channel_url_id(channel_url) ==
    IF channel_url \in {NaNCell, EmptyCell} THEN None
    ELSE IF channel_url.kind = "youtube/@"
    THEN FirstSegment(AfterAt(channel_url.name))
    ELSE IF channel_url.kind = "youtube/channel/" THEN FirstSegment(channel_url.name)
    ELSE IF channel_url.kind = "youtube/c/" THEN FirstSegment(channel_url.name)
    ELSE IF channel_url.kind = "youtube/user/" THEN FirstSegment(channel_url.name)
    ELSE None

\* extract_username_from_channel_url: the handle after '@', after '/c/' or
\* after '/user/'; None for a missing URL, a '/channel/' URL, any other
extract_username_from_channel_url(channel_url) ==
    IF channel_url \in {NaNCell, EmptyCell} THEN None
    ELSE IF channel_url.kind = "youtube/@"
    THEN FirstSegment(AfterAt(channel_url.name))
    ELSE IF channel_url.kind = "youtube/channel/" THEN None
    ELSE IF channel_url.kind = "youtube/c/" THEN FirstSegment(channel_url.name)
    ELSE IF channel_url.kind = "youtube/user/" THEN FirstSegment(channel_url.name)
    ELSE None

\* the six ViewStats columns of one outcome
ViewStatsData(profile, views, subs, rev, long, short) ==
    [ViewStats_Profile_URL |-> profile,
     Views_Last_28_Days |-> views,
     Subs_Last_28_Days |-> subs,
     Estimated_Rev_Last_28_Days |-> rev,
     Long_Views |-> long,
     Short_Views |-> short]

\* an outcome with every metric blank
Sentinel(text) == ViewStatsData(Text(text), "", "", "", "", "")

\* check_if_channel_not_tracked as it would be if the title were compared
\* in the wrong case: 'Not Found' is never seen in it
check_if_channel_not_tracked_case(page) ==
    IF page.title = "WebDriverException" THEN TRUE
    ELSE IF page.tracking = "found" THEN TRUE
    ELSE IF page.body = "error" THEN TRUE
    ELSE FALSE

\* check_if_channel_not_tracked: the title, then the not-tracking
\* elements, then the body text; an exception reading the title counts as
\* not tracked, one in the two inner lookups is passed over
check_if_channel_not_tracked(page) ==
    IF page.title = "WebDriverException" THEN TRUE
    ELSE IF page.title = "Not Found" THEN TRUE
    ELSE IF page.tracking = "found" THEN TRUE
    ELSE IF page.body = "error" THEN TRUE
    ELSE FALSE

\* the exceptions the outer handlers of scrape_viewstats_data turn into
\* sentinels
Raised == {"WebDriverException", "Exception"}

\* the handlers as they would be without the WebDriverException clause
HandlerSentinel_generic(e) == Sentinel("error occurred")

\* the sentinel of the handler that catches exception e
HandlerSentinel(e) ==
    IF e = "WebDriverException" THEN Sentinel("webdriver error")
    ELSE Sentinel("error occurred")

\* the try block of scrape_viewstats_data after the page was fetched
ExtractData(page, viewstats_url) ==
    IF check_if_channel_not_tracked(page)
    THEN Sentinel("no viewstats page available")
    ELSE IF page.views \in Raised THEN HandlerSentinel(page.views)
    ELSE IF page.views = "none"
    THEN ViewStatsData(Text("no viewstats data available"), "", "", "", "", "")
    ELSE IF page.subs \in Raised THEN HandlerSentinel(page.subs)
    ELSE IF page.rev \in Raised THEN HandlerSentinel(page.rev)
    ELSE IF page.longshort \in Raised THEN HandlerSentinel(page.longshort)
    ELSE ViewStatsData(
            viewstats_url,
            Strip(page.views_text),
            IF page.subs = "found" THEN "+10K" ELSE "",
            IF page.rev = "found" THEN "$5K" ELSE "",
            IF page.longshort \in {"both", "long"} THEN "900K" ELSE "",
            IF page.longshort = "both" THEN "300K" ELSE "")

\* the username scrape_viewstats_data looks up: the stored one, or, when
\* that is '' or 'Unknown', the one extracted from the channel URL
LookupUsername(username, channel_url) ==
    IF username = "" \/ username = "Unknown"
    THEN LET extracted_username == extract_username_from_channel_url(channel_url)
         IN  IF extracted_username # None /\ extracted_username # ""
             THEN extracted_username ELSE None
    ELSE username

\* scrape_viewstats_data: the outcome for one row on a page behaviour, and
\* whether driver.get was called
scrape_viewstats_data(page, username, channel_url) ==
    LET lookup == LookupUsername(username, channel_url)
    IN  IF lookup = None
        THEN [loaded |-> FALSE, data |-> Sentinel("no username available")]
        ELSE [loaded |-> TRUE,
              data |-> IF page.get \in Raised THEN HandlerSentinel(page.get)
                       ELSE ExtractData(page, ViewStatsURL(lookup))]

\* the for loop's update of the main dataframe
UpdateRow(df, original_index, viewstats_data) ==
    [df EXCEPT ![original_index] =
        [c \in DOMAIN @ |->
            IF c \in DOMAIN viewstats_data THEN viewstats_data[c] ELSE @[c]]]

\* the checkpoint test as it would be on the index instead of the count
ShouldCheckpoint_index(idx) == idx % SAVE_EVERY = 0

\* (idx + 1) % 10 == 0
ShouldCheckpoint(idx) == (idx + 1) % SAVE_EVERY = 0

(* -------------------------- enrichment: inputs ------------------------- *)
\* what the rendered page does at each step of one attempt
PageBehaviours ==
    [get : {"ok"} \cup Raised,
     title : {"ok", "Not Found", "WebDriverException"},
     tracking : {"none", "found"},
     body : {"ok", "error"},
     views : {"primary", "alt", "none"} \cup Raised,
     views_text : {" 1.2M "},
     subs : {"found", "timeout"} \cup Raised,
     rev : {"found", "timeout"} \cup Raised,
     longshort : {"both", "long", "timeout", "label_error"} \cup Raised]

\* a page on which every step succeeds
GoodPage ==
    [get |-> "ok", title |-> "ok", tracking |-> "none", body |-> "ok",
     views |-> "primary", views_text |-> " 1.2M ", subs |-> "found",
     rev |-> "found", longshort |-> "both"]

\* the behaviours that differ from the good page at one step
Pages ==
    {p \in PageBehaviours :
        Cardinality({f \in DOMAIN p : p[f] # GoodPage[f]}) <= 1}

\* a stored row with the given identity and ViewStats columns
EnrichRow(username, channel_url, data) ==
    [Username |-> username, Subscribers |-> 5, Total_Views |-> 10,
     Video_Count |-> 4, Avg_Views_Per_Video |-> AvgViews(10, 4),
     Country |-> "US", Channel_URL |-> channel_url,
     Search_Niche |-> <<"gaming">>, Channel_Image_URL |-> "img",
     Views_Last_28_Days |-> data.Views_Last_28_Days,
     Subs_Last_28_Days |-> data.Subs_Last_28_Days,
     Estimated_Rev_Last_28_Days |-> data.Estimated_Rev_Last_28_Days,
     Long_Views |-> data.Long_Views,
     Short_Views |-> data.Short_Views,
     ViewStats_Profile_URL |-> data.ViewStats_Profile_URL]

\* ViewStats columns never filled in
Blank == ViewStatsData(EmptyCell, "", "", "", "", "")

\* the rows an enrichment store is made of: rows still to process, with the
\* URL shapes and usernames the lookup tells apart, and rows already
\* settled, one of them of a channel from Namibia (country code NA)
EnrichRows ==
    {EnrichRow("@foo", HandleURL("@foo"), Blank),
     EnrichRow("Bar", ChannelIdURL("UC3"), Blank),
     EnrichRow("", HandleURL("@foo/videos"), Blank),
     EnrichRow("Unknown", ChannelIdURL("UC4"),
               ViewStatsData(Text("N/A"), "", "", "", "", "")),
     EnrichRow("Unknown", Cell("youtube/c/", "bar"), Blank),
     EnrichRow("Unknown", Cell("youtube/user/", "baz"), Blank),
     EnrichRow("Unknown", EmptyCell, Blank),
     EnrichRow("Unknown", Cell("other", "example.com"), Blank),
     EnrichRow("Unknown", HandleURL("@"), Blank),
     EnrichRow("@foo", HandleURL("@foo"),
               ViewStatsData(ViewStatsURL("@foo"), "1.2M", "+10K", "", "900K", "")),
     EnrichRow("Bar", ChannelIdURL("UC3"), Sentinel("webdriver error")),
     EnrichRow("Baz", ChannelIdURL("UC4"), Sentinel("no viewstats page available")),
     [EnrichRow("@nam", HandleURL("@nam"), Sentinel("no viewstats data available"))
        EXCEPT !.Country = "NA"]}

\* the i-th row of a long store: distinct handles, nothing processed yet
LongRow(i) ==
    LET names == <<"@c01", "@c02", "@c03", "@c04", "@c05", "@c06", "@c07",
                   "@c08", "@c09", "@c10", "@c11", "@c12", "@c13", "@c14",
                   "@c15", "@c16", "@c17", "@c18", "@c19", "@c20", "@c21",
                   "@c22", "@c23", "@c24">>
        name == names[((i - 1) % Len(names)) + 1]
    IN  EnrichRow(name, HandleURL(name), Blank)

\* the stores an enrichment behaviour starts from: every short store over
\* EnrichRows, and the long stores that reach the save checkpoints
EnrichStores ==
    SeqsUpTo(EnrichRows, MaxStoreRows)
    \cup {[i \in 1..n |-> LongRow(i)] : n \in (SAVE_EVERY - 1)..MaxLongRows}

(* ------------------------------ state ---------------------------------- *)
VARIABLES
    disk,               \* the rows of youtube_channels_database.csv
    csv_exists,         \* os.path.exists(DATABASE_CSV)
    remote,             \* the remote result set of the search, fixed
    pc,                 \* position in scrape_channels_by_niche
    niche, min_subs, max_subs, country_filter, target_creators,
    database_df,        \* the in-memory table of the run
    next_page_token,    \* 0 is None; t asks for page t + 1
    new_results,
    updated_channels,
    pages_searched,
    response,           \* the page the last search call returned
    detailed_channels,  \* the channels of the page not yet looped over
    search_calls,       \* search().list calls the run made
    saves,              \* save_database calls the run made
    runs,               \* discovery runs started
    hist,               \* per finished run: its inputs and the store after it
    last_event,         \* what the for loop printed for the last channel
    pages,              \* the behaviours the ViewStats pages can show
    epc,                \* position in process_viewstats_data
    df,                 \* the in-memory table of the enrichment run
    channels_to_process,\* original indices of the selected rows
    idx,                \* rows of channels_to_process looped over
    start_file,         \* the file as the enrichment run loaded it
    page_loads,         \* original indices driver.get was called for
    last_attempt,       \* the last row processed and the page it met
    save_log,           \* the save_database calls of the enrichment run
    exit,               \* how the last enrichment run ended
    eruns,              \* enrichment runs started
    first_niche,        \* the two niche keywords merged into one field,
    second_niche,
    niches_ab,          \* the field merged with first_niche, then second
    niches_ba,          \* the same field merged with second, then first
    merged_ab,          \* merges done on niches_ab
    merged_ba           \* merges done on niches_ba

dvars ==
    <<disk, csv_exists, remote, pc, niche, min_subs, max_subs, country_filter,
      target_creators, database_df, next_page_token, new_results,
      updated_channels, pages_searched, response, detailed_channels,
      search_calls, saves, runs, hist, last_event>>

evars ==
    <<pages, epc, df, channels_to_process, idx, start_file, page_loads,
      last_attempt, save_log, exit, eruns>>

mvars ==
    <<first_niche, second_niche, niches_ab, niches_ba, merged_ab, merged_ba>>

vars == <<dvars, evars, mvars>>

\* no niche merge is followed on its own
MergeIdle ==
    /\ first_niche = <<>>
    /\ second_niche = <<>>
    /\ niches_ab = <<>>
    /\ niches_ba = <<>>
    /\ merged_ab = 0
    /\ merged_ba = 0

\* the response of a search call that has nothing to return
NoItems == Page("no_items", <<>>, FALSE)

\* no channel looped over yet
NoEvent ==
    [what |-> "", index |-> 0, username |-> "", channel_url |-> EmptyCell,
     subscribers |-> 0, country |-> ""]

\* the line printed (or the skip reason tallied) for a processed channel
Event(what, index, channel_details) ==
    [what |-> what, index |-> index, username |-> channel_details.username,
     channel_url |-> channel_details.channel_url,
     subscribers |-> channel_details.subscribers,
     country |-> channel_details.country]

\* no attempt made yet
NoAttempt == [index |-> 0, page |-> GoodPage, loaded |-> FALSE]

\* the enrichment job is not running and has not run
EnrichmentIdle ==
    /\ epc = "idle"
    /\ df = <<>>
    /\ channels_to_process = <<>>
    /\ idx = 0
    /\ start_file = <<>>
    /\ page_loads = {}
    /\ last_attempt = NoAttempt
    /\ save_log = <<>>
    /\ exit = ""
    /\ eruns = 0

InitDiscovery ==
    /\ disk \in Stores
    /\ csv_exists \in {disk # <<>>, TRUE}
    /\ remote \in Remotes
    /\ pc = "idle"
    /\ niche = <<>>
    /\ min_subs = 0
    /\ max_subs = 0
    /\ country_filter \in CountryFilters
    /\ target_creators \in 1..MaxTarget
    /\ database_df = <<>>
    /\ next_page_token = 0
    /\ new_results = <<>>
    /\ updated_channels = 0
    /\ pages_searched = 0
    /\ response = NoItems
    /\ detailed_channels = <<>>
    /\ search_calls = 0
    /\ saves = 0
    /\ runs = 0
    /\ hist = <<>>
    /\ last_event = NoEvent
    /\ EnrichmentIdle
    /\ pages = {GoodPage}
    /\ MergeIdle

(* -------------------------- discovery: steps --------------------------- *)
\* load_or_create_database: the file's rows, or an empty table
load_or_create_database == IF csv_exists THEN read_csv(disk) ELSE <<>>

\* scrape_channels_by_niche, entry: load the table, reset the locals. The
\* runs of one behaviour share the country filter and the target count and
\* differ in the niche
StartRun ==
    /\ pc = "idle"
    /\ runs < MaxRuns
    /\ \E n \in Niches : niche' = n
    /\ min_subs' = MinSubs
    /\ max_subs' = MaxSubs
    /\ database_df' = load_or_create_database
    /\ next_page_token' = 0
    /\ new_results' = <<>>
    /\ updated_channels' = 0
    /\ pages_searched' = 0
    /\ response' = NoItems
    /\ detailed_channels' = <<>>
    /\ search_calls' = 0
    /\ saves' = 0
    /\ runs' = runs + 1
    /\ pc' = "while"
    /\ last_event' = NoEvent
    /\ UNCHANGED <<disk, csv_exists, remote, country_filter, target_creators,
                   hist>>
    /\ UNCHANGED evars
    /\ UNCHANGED mvars

\* the while condition as it would be without the page ceiling
LoopCondition_no_ceiling == Len(new_results) < target_creators

\* the while condition of the search loop
LoopCondition ==
    Len(new_results) < target_creators /\ pages_searched < max_pages

\* the while condition fails: on to the code after the loop
LoopExit ==
    /\ pc = "while"
    /\ ~LoopCondition
    /\ pc' = "after"
    /\ UNCHANGED <<disk, csv_exists, remote, niche, min_subs, max_subs,
                   country_filter, target_creators, database_df,
                   next_page_token, new_results, updated_channels,
                   pages_searched, response, detailed_channels, search_calls,
                   saves, runs, hist, last_event>>
    /\ UNCHANGED evars
    /\ UNCHANGED mvars

\* one pass of the while body up to the for loop: the search call, the
\* empty-page break, the batch detail call; an exception breaks the loop
SearchPage ==
    /\ pc = "while"
    /\ LoopCondition
    /\ LET page_number == next_page_token + 1
           resp == IF page_number <= Len(remote) THEN remote[page_number]
                   ELSE NoItems
       IN  /\ search_calls' = search_calls + 1
           /\ response' = resp
           /\ pages_searched' =
                 IF resp.kind = "search_error" THEN pages_searched
                 ELSE pages_searched + 1
           /\ detailed_channels' =
                 IF resp.kind = "ok" THEN resp.details ELSE <<>>
           /\ pc' = IF resp.kind = "ok" THEN "for" ELSE "after"
    /\ UNCHANGED <<disk, csv_exists, remote, niche, min_subs, max_subs,
                   country_filter, target_creators, database_df,
                   next_page_token, new_results, updated_channels, saves,
                   runs, hist, last_event>>
    /\ UNCHANGED evars
    /\ UNCHANGED mvars

\* the subscriber filter as it would be with exclusive bounds
InSubscriberRange_exclusive(subscribers, lo, hi) ==
    lo < subscribers /\ subscribers < hi

\* the subscriber filter: inclusive bounds
InSubscriberRange(subscribers, lo, hi) == lo <= subscribers /\ subscribers <= hi

\* the country filter: none, or equality of the upper-cased codes
PassesCountry(country, filter) == filter = "" \/ Upper(country) = Upper(filter)

\* one pass of the for loop over the page's channels
ProcessChannel ==
    /\ pc = "for"
    /\ detailed_channels # <<>>
    /\ LET channel_details == process_channel_data(Head(detailed_channels))
           existing_index ==
               IF channel_details.ok
               THEN find_existing_channel(channel_details.username,
                                          channel_details.channel_url,
                                          database_df)
               ELSE 0
       IN  IF ~channel_details.ok
           THEN \* Processing Error: skipped
                /\ detailed_channels' = Tail(detailed_channels)
                /\ pc' = "for"
                /\ last_event' = [NoEvent EXCEPT !.what = "Processing Error"]
                /\ UNCHANGED <<database_df, new_results, updated_channels>>
           ELSE IF existing_index # 0
           THEN \* known channel: merge the niche, nothing else
                LET existing_niches == database_df[existing_index].Search_Niche
                    updated_niches == add_niche_to_existing(existing_niches, niche)
                IN  /\ IF updated_niches # existing_niches
                       THEN /\ database_df' =
                                 [database_df EXCEPT
                                    ![existing_index].Search_Niche = updated_niches]
                            /\ updated_channels' = updated_channels + 1
                            /\ last_event' =
                                 Event("Updated", existing_index, channel_details)
                       ELSE /\ last_event' =
                                 Event("No update needed", existing_index,
                                       channel_details)
                            /\ UNCHANGED <<database_df, updated_channels>>
                    /\ detailed_channels' = Tail(detailed_channels)
                    /\ pc' = "for"
                    /\ UNCHANGED new_results
           ELSE IF ~InSubscriberRange(channel_details.subscribers, min_subs, max_subs)
           THEN \* skipped before the country filter is looked at
                /\ detailed_channels' = Tail(detailed_channels)
                /\ pc' = "for"
                /\ last_event' =
                      Event("Subscribers outside range", 0, channel_details)
                /\ UNCHANGED <<database_df, new_results, updated_channels>>
           ELSE IF ~PassesCountry(channel_details.country, country_filter)
           THEN /\ detailed_channels' = Tail(detailed_channels)
                /\ pc' = "for"
                /\ last_event' = Event("Country mismatch", 0, channel_details)
                /\ UNCHANGED <<database_df, new_results, updated_channels>>
           ELSE \* a new channel; both loops break once the target is met
                /\ new_results' =
                      Append(new_results, create_database_row(channel_details, niche))
                /\ detailed_channels' = Tail(detailed_channels)
                /\ pc' = IF Len(new_results') >= target_creators
                         THEN "after" ELSE "for"
                /\ last_event' = Event("Found NEW", 0, channel_details)
                /\ UNCHANGED <<database_df, updated_channels>>
    /\ UNCHANGED <<disk, csv_exists, remote, niche, min_subs, max_subs,
                   country_filter, target_creators, next_page_token,
                   pages_searched, response, search_calls, saves, runs, hist>>
    /\ UNCHANGED evars
    /\ UNCHANGED mvars

\* the for loop is exhausted: take the next-page token or break
EndPage ==
    /\ pc = "for"
    /\ detailed_channels = <<>>
    /\ IF Len(new_results) >= target_creators
       THEN pc' = "after" /\ UNCHANGED next_page_token
       ELSE /\ next_page_token' = IF response.next THEN next_page_token + 1 ELSE 0
            /\ pc' = IF response.next THEN "while" ELSE "after"
    /\ UNCHANGED <<disk, csv_exists, remote, niche, min_subs, max_subs,
                   country_filter, target_creators, database_df, new_results,
                   updated_channels, pages_searched, response,
                   detailed_channels, search_calls, saves, runs, hist,
                   last_event>>
    /\ UNCHANGED evars
    /\ UNCHANGED mvars

\* pd.concat([database_df, new_df]) (new_df alone for an empty table)
ConcatResults(table, new_rows) ==
    IF new_rows = <<>> THEN table
    ELSE IF table = <<>> THEN new_rows ELSE table \o new_rows

\* the save test as it would be if only new rows counted
ShouldSave_new_only(new_rows, updated) == new_rows # <<>>

\* whether the run saves: new rows, or a changed niche
ShouldSave(new_rows, updated) == new_rows # <<>> \/ updated > 0

\* what a finished run leaves behind, for comparing runs
RunSummary(file, saved) ==
    [niche |-> niche, min_subs |-> min_subs, max_subs |-> max_subs,
     country_filter |-> country_filter, target_creators |-> target_creators,
     rows |-> Len(file),
     tokens |-> [i \in 1..Len(file) |-> LowerWords(file[i].Search_Niche)],
     new |-> Len(new_results), saves |-> saved,
     search_calls |-> search_calls]

\* after the loop: append the new rows, save if anything changed
Finish ==
    /\ pc = "after"
    /\ LET updated_database == ConcatResults(database_df, new_results)
           save == ShouldSave(new_results, updated_channels)
           file == IF save THEN to_csv(updated_database) ELSE disk
       IN  /\ database_df' = updated_database
           /\ disk' = file
           /\ csv_exists' = (csv_exists \/ save)
           /\ saves' = IF save THEN saves + 1 ELSE saves
           /\ hist' = Append(hist, RunSummary(file, saves'))
    /\ pc' = "idle"
    /\ UNCHANGED <<remote, niche, min_subs, max_subs, country_filter,
                   target_creators, next_page_token, new_results,
                   updated_channels, pages_searched, response,
                   detailed_channels, search_calls, runs, last_event>>
    /\ UNCHANGED evars
    /\ UNCHANGED mvars

NextDiscovery ==
    \/ StartRun
    \/ LoopExit
    \/ SearchPage
    \/ ProcessChannel
    \/ EndPage
    \/ Finish

SpecDiscovery == InitDiscovery /\ [][NextDiscovery]_vars

\* a started run is one call of scrape_channels_by_niche: it keeps running
RunStep == LoopExit \/ SearchPage \/ ProcessChannel \/ EndPage \/ Finish

SpecDiscoveryFair == SpecDiscovery /\ WF_vars(RunStep)

(* -------------------------- enrichment: steps -------------------------- *)
\* the discovery job is not running while the enrichment job runs
DiscoveryIdle ==
    /\ remote = <<>>
    /\ pc = "idle"
    /\ niche = <<>>
    /\ min_subs = 0
    /\ max_subs = 0
    /\ country_filter = ""
    /\ target_creators = 0
    /\ database_df = <<>>
    /\ next_page_token = 0
    /\ new_results = <<>>
    /\ updated_channels = 0
    /\ pages_searched = 0
    /\ response = NoItems
    /\ detailed_channels = <<>>
    /\ search_calls = 0
    /\ saves = 0
    /\ runs = 0
    /\ hist = <<>>
    /\ last_event = NoEvent

dlocal ==
    <<remote, pc, niche, min_subs, max_subs, country_filter, target_creators,
      database_df, next_page_token, new_results, updated_channels,
      pages_searched, response, detailed_channels, search_calls, saves, runs,
      hist, last_event>>

\* the page behaviours of one behaviour: a store of one row meets any
\* single behaviour; a store of more rows meets good pages, pages that
\* cannot be fetched, pages without views data, untracked pages, or a mix
\* of good pages and pages whose title cannot be read; a long store meets
\* good pages or untracked ones
InitEnrichment ==
    /\ disk \in EnrichStores
    /\ csv_exists \in {disk # <<>>, TRUE}
    /\ IF Len(disk) <= 1
       THEN \E p \in Pages : pages = {p}
       ELSE IF Len(disk) <= MaxStoreRows
       THEN pages \in
              {{GoodPage},
               {[GoodPage EXCEPT !.get = "WebDriverException"]},
               {[GoodPage EXCEPT !.views = "none"]},
               {[GoodPage EXCEPT !.title = "Not Found"]},
               {GoodPage, [GoodPage EXCEPT !.title = "WebDriverException"]}}
       ELSE pages \in {{GoodPage}, {[GoodPage EXCEPT !.title = "Not Found"]}}
    /\ EnrichmentIdle
    /\ DiscoveryIdle
    /\ MergeIdle

\* process_viewstats_data up to the loop: no file, nothing to process, or a
\* driver that cannot be set up end the job before any row is touched
StartEnrichment ==
    /\ epc = "idle"
    /\ eruns < MaxEnrichRuns
    /\ eruns' = eruns + 1
    /\ idx' = 0
    /\ page_loads' = {}
    /\ last_attempt' = NoAttempt
    /\ save_log' = <<>>
    /\ start_file' = disk
    /\ IF ~csv_exists
       THEN /\ exit' = "no database file"
            /\ epc' = "idle"
            /\ df' = <<>>
            /\ channels_to_process' = <<>>
       ELSE /\ df' = read_csv(disk)
            /\ channels_to_process' = get_channels_to_process(df')
            /\ IF channels_to_process' = <<>>
               THEN exit' = "nothing to process" /\ epc' = "idle"
               ELSE \E driver_ok \in BOOLEAN :
                       IF driver_ok
                       THEN exit' = "" /\ epc' = "loop"
                       ELSE exit' = "setup_driver failed" /\ epc' = "idle"
    /\ UNCHANGED <<disk, csv_exists, pages>>
    /\ UNCHANGED dlocal
    /\ UNCHANGED mvars

\* the row the loop is at, and what scraping it yields on page behaviour p
CurrentIndex == channels_to_process[idx + 1]

Scraped(p) ==
    scrape_viewstats_data(p, df[CurrentIndex].Username, df[CurrentIndex].Channel_URL)

\* one pass of the for loop: scrape, write the six columns, count, delay,
\* and save when the count of rows done is a multiple of ten
ProcessRecord ==
    /\ epc = "loop"
    /\ idx < Len(channels_to_process)
    /\ \E p \in pages :
          /\ df' = UpdateRow(df, CurrentIndex, Scraped(p).data)
          /\ page_loads' =
                IF Scraped(p).loaded THEN page_loads \cup {CurrentIndex}
                ELSE page_loads
          /\ last_attempt' =
                [index |-> CurrentIndex, page |-> p, loaded |-> Scraped(p).loaded]
    /\ idx' = idx + 1
    /\ IF ShouldCheckpoint(idx)
       THEN /\ disk' = to_csv(df')
            /\ save_log' =
                  Append(save_log, [kind |-> "progress", done |-> idx + 1])
       ELSE UNCHANGED <<disk, save_log>>
    /\ UNCHANGED <<csv_exists, pages, epc, channels_to_process, start_file,
                   exit, eruns>>
    /\ UNCHANGED dlocal
    /\ UNCHANGED mvars

\* the loop ran to its end
LoopDone ==
    /\ epc = "loop"
    /\ idx = Len(channels_to_process)
    /\ epc' = "finally"
    /\ exit' = "complete"
    /\ UNCHANGED <<disk, csv_exists, pages, df, channels_to_process, idx,
                   start_file, page_loads, last_attempt, save_log, eruns>>
    /\ UNCHANGED dlocal
    /\ UNCHANGED mvars

\* Ctrl-C or an unexpected exception leaves the loop: while the row is
\* being scraped (nothing of it written), or after its columns were written
\* (during the delay or the progress save)
AbortLoop ==
    /\ epc = "loop"
    /\ idx < Len(channels_to_process)
    /\ \E written \in BOOLEAN, p \in pages :
          /\ exit' = "aborted"
          /\ IF written
             THEN /\ df' = UpdateRow(df, CurrentIndex, Scraped(p).data)
                  /\ page_loads' =
                        IF Scraped(p).loaded THEN page_loads \cup {CurrentIndex}
                        ELSE page_loads
                  /\ last_attempt' =
                        [index |-> CurrentIndex, page |-> p,
                         loaded |-> Scraped(p).loaded]
             ELSE UNCHANGED <<df, page_loads, last_attempt>>
    /\ epc' = "finally"
    /\ UNCHANGED <<disk, csv_exists, pages, channels_to_process, idx,
                   start_file, save_log, eruns>>
    /\ UNCHANGED dlocal
    /\ UNCHANGED mvars

\* the finally block: driver.quit(), then save_database(df); when quit
\* raises, the save is not reached
Finally ==
    /\ epc = "finally"
    /\ \E quit_ok \in BOOLEAN :
          IF quit_ok
          THEN /\ disk' = to_csv(df)
               /\ save_log' = Append(save_log, [kind |-> "final", done |-> idx])
               /\ UNCHANGED exit
          ELSE /\ exit' = "driver.quit failed"
               /\ UNCHANGED <<disk, save_log>>
    /\ epc' = "idle"
    /\ UNCHANGED <<csv_exists, pages, df, channels_to_process, idx,
                   start_file, page_loads, last_attempt, eruns>>
    /\ UNCHANGED dlocal
    /\ UNCHANGED mvars

NextEnrichment ==
    \/ StartEnrichment
    \/ ProcessRecord
    \/ LoopDone
    \/ AbortLoop
    \/ Finally

SpecEnrichment == InitEnrichment /\ [][NextEnrichment]_vars

(* ------------------------- niche merges: steps ------------------------- *)
\* the words niche keywords and stored niche fields are made of
NicheWords == {"gaming", "Gaming", "fitness"}

\* a niche keyword as typed, or a stored niche field (blank included)
NicheTexts == SeqsUpTo(NicheWords, MaxNicheWords)

\* one stored field and two keywords; the field is kept twice, to be merged
\* with the keywords in either order
InitMerge ==
    /\ first_niche \in NicheTexts
    /\ second_niche \in NicheTexts
    /\ niches_ab \in NicheTexts
    /\ niches_ba = niches_ab
    /\ merged_ab = 0
    /\ merged_ba = 0
    /\ disk = <<>>
    /\ csv_exists = FALSE
    /\ pages = {GoodPage}
    /\ DiscoveryIdle
    /\ EnrichmentIdle

\* the run of the next keyword finds the channel: its field is merged
MergeAB ==
    /\ merged_ab < 2
    /\ niches_ab' =
          add_niche_to_existing(niches_ab,
                                IF merged_ab = 0 THEN first_niche ELSE second_niche)
    /\ merged_ab' = merged_ab + 1
    /\ UNCHANGED <<first_niche, second_niche, niches_ba, merged_ba>>
    /\ UNCHANGED <<dvars, evars>>

\* the same with the keywords in the other order
MergeBA ==
    /\ merged_ba < 2
    /\ niches_ba' =
          add_niche_to_existing(niches_ba,
                                IF merged_ba = 0 THEN second_niche ELSE first_niche)
    /\ merged_ba' = merged_ba + 1
    /\ UNCHANGED <<first_niche, second_niche, niches_ab, merged_ab>>
    /\ UNCHANGED <<dvars, evars>>

NextMerge ==
    \/ MergeAB
    \/ MergeBA

SpecMerge == InitMerge /\ [][NextMerge]_vars

(* ============================ the claims =============================== *)
\* no two rows of a file share a username (case-insensitively) or a URL
UniqueIdentity(file) ==
    \A i, j \in 1..Len(file) :
        i # j => /\ Lower(file[i].Username) # Lower(file[j].Username)
                 /\ file[i].Channel_URL # file[j].Channel_URL

\* C1: starting from a store without duplicates, after any sequence of
\* discovery runs no two rows of the persisted store share a username
\* (case-insensitively) or a channel URL.
C1_IdentityUniqueness == UniqueIdentity(disk)

\* two finished runs were started with the same inputs (the remote result
\* set is the same throughout a behaviour)
SameInputs(a, b) ==
    /\ a.niche = b.niche
    /\ a.min_subs = b.min_subs
    /\ a.max_subs = b.max_subs
    /\ a.country_filter = b.country_filter
    /\ a.target_creators = b.target_creators

\* the second of two runs left the row count and every token set alone
SameStoreAfter(a, b) == a.rows = b.rows /\ a.tokens = b.tokens

\* C2 as stated: a run repeated with identical inputs on the unchanged
\* remote result set leaves the row count and every record's niche-token
\* set as the first run left them.
C2_RerunIdempotent ==
    \A k \in 2..Len(hist) :
        SameInputs(hist[k - 1], hist[k]) => SameStoreAfter(hist[k - 1], hist[k])

\* C2 amended: the same, for a first run that ended with fewer new records
\* than its target (a run that stopped on its target resumes the search
\* where the first left off).
C2_RerunIdempotentBelowTarget ==
    \A k \in 2..Len(hist) :
        (/\ SameInputs(hist[k - 1], hist[k])
         /\ hist[k - 1].new < hist[k - 1].target_creators)
        => SameStoreAfter(hist[k - 1], hist[k])

\* a first run appended rows and changed a niche without reaching its
\* target, and was repeated
C2_Witness ==
    /\ Len(hist) = 2
    /\ SameInputs(hist[1], hist[2])
    /\ hist[1].new > 0
    /\ hist[1].new < hist[1].target_creators
    /\ hist[1].rows > hist[1].new
    /\ hist[2].search_calls > 0

\* what holds at every point of a discovery run
StopsInTime ==
    /\ Len(new_results) <= target_creators
    /\ search_calls <= max_pages
    /\ (Len(new_results) >= target_creators => pc \in {"after", "idle"})
    /\ (pc = "while" /\ search_calls > 0 => response.kind = "ok" /\ response.next)

\* C8: every discovery run terminates; once the new records number the
\* target, no further candidate is processed and no further search call
\* is made; the loop goes on to another page only after a page with items
\* and a next-page token; a run never collects more new records than the
\* target and never makes more than 15 search calls.
C8_RunTerminates == []StopsInTime /\ ((pc # "idle") ~> (pc = "idle"))

\* the target was met in the middle of a page: candidates are left over
C8_Witness ==
    /\ pc = "after"
    /\ Len(new_results) = target_creators
    /\ detailed_channels # <<>>
    /\ response.next

\* a row and a discovered channel are the same entity
SameEntity(row, username, channel_url) ==
    \/ (row.Username # NaN /\ Lower(row.Username) = Lower(username))
    \/ row.Channel_URL = channel_url

\* the channel the for loop is about to process, when it can be processed
NextChannel == process_channel_data(Head(detailed_channels))

\* the for loop is about to process a channel that is in the table
AtKnownChannel ==
    /\ pc = "for"
    /\ detailed_channels # <<>>
    /\ NextChannel.ok
    /\ \E i \in 1..Len(database_df) :
          SameEntity(database_df[i], NextChannel.username, NextChannel.channel_url)

\* C9: processing a channel that matches a row of the table changes at
\* most the niche field of one matching row, appends nothing and counts
\* nothing toward the target, whatever its subscriber count and country.
C9_MatchOnlyMergesNiche ==
    [][AtKnownChannel =>
        /\ new_results' = new_results
        /\ Len(database_df') = Len(database_df)
        /\ \E i \in 1..Len(database_df) :
              /\ SameEntity(database_df[i], NextChannel.username,
                            NextChannel.channel_url)
              /\ database_df' =
                    [database_df EXCEPT
                       ![i].Search_Niche = database_df'[i].Search_Niche]]_vars

\* a channel outside the subscriber range was merged into its row
C9_Witness ==
    /\ last_event.what = "Updated"
    /\ ~InSubscriberRange(last_event.subscribers, min_subs, max_subs)
    /\ new_results = <<>>

\* every row of the old table is in the new one with at least its tokens
NicheGrows(old, new) ==
    \A i \in 1..Len(old) :
        /\ i <= Len(new)
        /\ LowerWords(old[i].Search_Niche) \subseteq LowerWords(new[i].Search_Niche)

\* C10: over discovery runs the niche-token set of every record only
\* grows, in the table of a run and in the persisted store: a merge keeps
\* every token the field had.
C10_NicheMonotone ==
    [][/\ NicheGrows(disk, disk')
       /\ (pc # "idle" => NicheGrows(database_df, database_df'))]_vars

\* a merge added a word to a field that had one
C10_Witness ==
    /\ last_event.what = "Updated"
    /\ pc = "for"
    /\ Len(database_df[last_event.index].Search_Niche) > 1

\* the for loop is about to process a channel that is in no row of the
\* table and that the country filter lets through
AtUnknownChannel ==
    /\ pc = "for"
    /\ detailed_channels # <<>>
    /\ NextChannel.ok
    /\ \A i \in 1..Len(database_df) :
          ~SameEntity(database_df[i], NextChannel.username, NextChannel.channel_url)
    /\ \/ country_filter = ""
       \/ Upper(NextChannel.country) = Upper(country_filter)

\* C12: a channel that matches no row and passes the country filter is
\* appended as a new record when its subscriber count is min_subs, max_subs
\* or between them, and is skipped as 'Subscribers outside range', neither
\* appended nor counted, when it is min_subs - 1 or max_subs + 1.
C12_InclusiveBounds ==
    [][AtUnknownChannel =>
        /\ NextChannel.subscribers \in min_subs..max_subs =>
              /\ Len(new_results') = Len(new_results) + 1
              /\ SubSeq(new_results', 1, Len(new_results)) = new_results
              /\ new_results'[Len(new_results')].Username = NextChannel.username
              /\ new_results'[Len(new_results')].Subscribers = NextChannel.subscribers
              /\ last_event'.what = "Found NEW"
        /\ NextChannel.subscribers \in {min_subs - 1, max_subs + 1} =>
              /\ new_results' = new_results
              /\ database_df' = database_df
              /\ last_event'.what = "Subscribers outside range"
              /\ pc' = "for"]_vars

\* a channel at max_subs was appended and one at min_subs - 1 skipped
C12_Witness ==
    /\ Len(new_results) = 1
    /\ new_results[1].Subscribers = max_subs
    /\ min_subs < max_subs
    /\ last_event.what = "Subscribers outside range"
    /\ last_event.subscribers = min_subs - 1

\* the run appended a record or changed the niche field of a row it loaded
RunChangedStore ==
    \/ new_results # <<>>
    \/ \E i \in 1..Len(database_df) :
          database_df[i].Search_Niche # disk[i].Search_Niche

\* the file holds the rows the run loaded from it, as pandas reads them
\* and with the niche fields of the table, followed by the new records
OldRowsThenNew(old_file, new_file) ==
    /\ Len(new_file) = Len(old_file) + Len(new_results)
    /\ \A i \in 1..Len(old_file) :
          ReadRow(new_file[i]) =
            [ReadRow(old_file[i]) EXCEPT
               !.Search_Niche = database_df[i].Search_Niche]
    /\ \A k \in 1..Len(new_results) :
          new_file[Len(old_file) + k] = WriteRow(new_results[k])

\* C13: a discovery run saves the store at most once, after the search
\* loop and never during it: once if it appended a record or changed a
\* niche field, also when an API error ended the loop, and not at all
\* otherwise; the saved table is the old rows followed by the new records.
C13_SavesOnceAfterLoop ==
    /\ [](saves <= 1 /\ (pc # "idle" => saves = 0))
    /\ [][/\ (disk' # disk \/ saves' > saves) => (pc = "after" /\ pc' = "idle")
          /\ (pc = "after" /\ pc' = "idle") =>
                IF RunChangedStore
                THEN saves' = 1 /\ OldRowsThenNew(disk, disk')
                ELSE saves' = 0 /\ disk' = disk]_vars

\* a run that a failing search call ended saved a table of an old row and
\* a new record
C13_Witness ==
    /\ pc = "idle"
    /\ saves = 1
    /\ response.kind = "search_error"
    /\ Len(new_results) = 1
    /\ Len(disk) = Len(new_results) + 1
    /\ updated_channels = 0

\* the rows of the table the next channel matches by username, and by URL
UsernameMatches ==
    {i \in 1..Len(database_df) :
        /\ database_df[i].Username # NaN
        /\ Lower(database_df[i].Username) = Lower(NextChannel.username)}
URLMatches ==
    {i \in 1..Len(database_df) :
        database_df[i].Channel_URL = NextChannel.channel_url}

\* the for loop is about to process a channel whose username is that of
\* one row and whose URL is that of another
AtConflictingChannel ==
    /\ pc = "for"
    /\ detailed_channels # <<>>
    /\ NextChannel.ok
    /\ \E i \in UsernameMatches, j \in URLMatches : i # j

\* the matching row of the lowest position
LowestMatch ==
    CHOOSE i \in UsernameMatches \cup URLMatches :
        \A j \in UsernameMatches \cup URLMatches : i <= j

\* C17: when the username of a discovered channel matches one row and its
\* URL is that of another row, the niche is merged into the matching row
\* of the lowest position only; every other row, the other matching row
\* included, stays as it is, and nothing is appended.
C17_LowestMatchMerged ==
    [][AtConflictingChannel =>
        /\ new_results' = new_results
        /\ database_df' =
              [database_df EXCEPT
                 ![LowestMatch].Search_Niche = database_df'[LowestMatch].Search_Niche]
        /\ LowerWords(database_df'[LowestMatch].Search_Niche) =
              LowerWords(database_df[LowestMatch].Search_Niche)
                 \cup LowerWords(niche)
        /\ last_event'.index = LowestMatch]_vars

\* the row with the channel's URL came first and got the niche; the row
\* with its username, further down, did not
C17_Witness ==
    /\ last_event.what = "Updated"
    /\ last_event.index = 1
    /\ Len(database_df) >= 2
    /\ database_df[1].Channel_URL = last_event.channel_url
    /\ Lower(database_df[1].Username) # Lower(last_event.username)
    /\ Lower(database_df[2].Username) = Lower(last_event.username)
    /\ LowerWords(niche) \subseteq LowerWords(database_df[1].Search_Niche)
    /\ ~(LowerWords(niche) \subseteq LowerWords(database_df[2].Search_Niche))

(* ------------------------ the enrichment claims ------------------------ *)
\* a profile cell of the file that holds no outcome yet
Unattempted(cell) == cell \in {EmptyCell, Text("N/A")}

\* the rows of a file whose profile cell holds no outcome yet
UnattemptedRows(file) ==
    {i \in 1..Len(file) : Unattempted(file[i].ViewStats_Profile_URL)}

\* the rows the run selected
Selected == {channels_to_process[k] : k \in 1..Len(channels_to_process)}

\* what holds of the selection at every point of a run that read the file
SelectsUnattempted ==
    (eruns > 0 /\ exit # "no database file") =>
        /\ Selected = UnattemptedRows(start_file)
        /\ Len(channels_to_process) = Cardinality(Selected)
        /\ page_loads \subseteq UnattemptedRows(start_file)
        /\ Len(df) = Len(start_file)
        /\ Len(disk) = Len(start_file)
        /\ \A i \in (1..Len(start_file)) \ UnattemptedRows(start_file) :
              /\ df[i] = ReadRow(start_file[i])
              /\ disk[i] = start_file[i]

\* C3: an enrichment run selects exactly the rows whose profile cell is
\* missing, empty or 'N/A'; a row that holds a profile URL or a sentinel
\* is never loaded in the browser and no run rewrites any of its fields,
\* in the table or in the file.
C3_WriteOnce ==
    /\ []SelectsUnattempted
    /\ [][\A i \in 1..Len(disk) :
            ~Unattempted(disk[i].ViewStats_Profile_URL) =>
                i <= Len(disk') /\ disk'[i] = disk[i]]_vars

\* the row of the table the loop attempted last
AttemptedRow == df[last_attempt.index]

\* the channel URL yields no handle: missing, an opaque id, another
\* shape, or nothing after the '@'
NoHandleURL(channel_url) ==
    \/ channel_url \in {NaNCell, EmptyCell}
    \/ channel_url.kind \in {"youtube/channel/", "other"}
    \/ channel_url = HandleURL("@")

\* the 'no username available' outcome of the last attempt
NoUsernameOutcome ==
    /\ ~last_attempt.loaded
    /\ AttemptedRow.ViewStats_Profile_URL = Text("no username available")
    /\ \A c \in {"Views_Last_28_Days", "Subs_Last_28_Days",
                  "Estimated_Rev_Last_28_Days", "Long_Views", "Short_Views"} :
          AttemptedRow[c] = ""

AttemptedData ==
    [c \in DOMAIN Blank |-> AttemptedRow[c]]

\* the step of the last attempt that raised, if any
NavigationRaised == last_attempt.page.get \in Raised
TitleRaised == last_attempt.page.get = "ok" /\ last_attempt.page.title \in Raised
ExtractionRaised ==
    /\ last_attempt.page.get = "ok"
    /\ \E f \in {"views", "subs", "rev", "longshort"} :
          last_attempt.page[f] \in Raised \cup {"label_error"}

\* one of the two error outcomes
ErrorOutcome ==
    AttemptedData \in {Sentinel("webdriver error"), Sentinel("error occurred")}

\* the loop went on after the last attempt: the row is counted and the
\* next one is due
BatchContinues ==
    exit = "" => /\ epc = "loop"
                 /\ idx > 0
                 /\ channels_to_process[idx] = last_attempt.index

Escaped ==
    IF NavigationRaised THEN {last_attempt.page.get}
    ELSE {last_attempt.page[f] :
            f \in {g \in {"views", "subs", "rev", "longshort"} :
                      last_attempt.page[g] \in Raised}}

C6_FinalPersist ==
    (epc = "idle" /\ exit \in {"complete", "aborted", "driver.quit failed"})
    => /\ save_log # <<>>
       /\ save_log[Len(save_log)].kind = "final"
       /\ disk = to_csv(df)

\* the progress saves due after done rows: one after every tenth row
ProgressSaves(done) ==
    [k \in 1..(done \div 10) |-> [kind |-> "progress", done |-> 10 * k]]

\* C7: a run that is not interrupted and processes N rows saves after the
\* 10th, 20th, ... row, each time with that row's columns written, and
\* then once more at the end: N \div 10 progress saves and one final save.
C7_CheckpointCadence ==
    /\ epc = "loop" =>
          /\ save_log = ProgressSaves(idx)
          /\ (idx > 0 /\ idx % 10 = 0) =>
                /\ disk = to_csv(df)
                /\ ~Unattempted(disk[channels_to_process[idx]].ViewStats_Profile_URL)
    /\ (epc = "idle" /\ exit = "complete") =>
          /\ save_log =
                Append(ProgressSaves(Len(channels_to_process)),
                       [kind |-> "final", done |-> Len(channels_to_process)])
          /\ disk = to_csv(df)

\* a run over exactly ten rows: one progress save, then the final save
C7_Witness ==
    /\ epc = "idle"
    /\ exit = "complete"
    /\ Len(channels_to_process) = 10
    /\ idx = 10
    /\ Len(save_log) = 2
    /\ save_log[1].kind = "progress"
    /\ save_log[2].kind = "final"

(* --------------------------- the merge claims -------------------------- *)
\* C11: for any stored niche field, blank included, and any two niche
\* keywords, merging the first and then the second leaves the same set of
\* lower-cased tokens as merging the second and then the first.
C11_MergeOrderIndependent ==
    (merged_ab = 2 /\ merged_ba = 2)
        => LowerWords(niches_ab) = LowerWords(niches_ba)

\* 'gaming' then 'fitness' and 'fitness' then 'gaming' on a blank field:
\* the two fields differ as text and hold the same tokens
C11_Witness ==
    /\ merged_ab = 2
    /\ merged_ba = 2
    /\ first_niche = <<"gaming">>
    /\ second_niche = <<"fitness">>
    /\ niches_ab = <<"gaming", "fitness">>
    /\ niches_ba = <<"fitness", "gaming">>

\* the columns discovery fills in
AcquisitionColumns ==
    {"Username", "Channel_URL", "Subscribers", "Total_Views", "Video_Count",
     "Avg_Views_Per_Video", "Country", "Search_Niche", "Channel_Image_URL"}

\* C14: an enrichment run changes only the six enrichment fields of the
\* rows it selected: in the file, every row it did not select and every
\* acquisition field of every row is as it was when the run loaded the
\* file, and the rows are as many and in the same order.
C14_OnlyEnrichmentFields ==
    (eruns > 0 /\ exit # "no database file") =>
        /\ Len(disk) = Len(start_file)
        /\ \A i \in 1..Len(start_file) :
              /\ i \notin UnattemptedRows(start_file) => disk[i] = start_file[i]
              /\ \A c \in AcquisitionColumns : disk[i][c] = start_file[i][c]

\* the last attempt fetched its page
PageFetched ==
    /\ last_attempt.index # 0
    /\ last_attempt.loaded
    /\ last_attempt.page.get = "ok"

\* the page of the last attempt has a views element, under the first
\* selector or the alternative one
HasViewsElement == last_attempt.page.views \in {"primary", "alt"}

\* the outcome of a page with views: the views text and the profile URL
\* built from the handle of the row
ViewsOutcome ==
    /\ AttemptedRow.Views_Last_28_Days = "1.2M"
    /\ AttemptedRow.ViewStats_Profile_URL =
          Cell("viewstats",
               LookupUsername(AttemptedRow.Username, AttemptedRow.Channel_URL))

\* C15 as stated: a fetched page whose title holds 'Not Found' gives 'no
\* viewstats page available' with the metrics blank, and every fetched
\* page with a views element gives the views text and the profile URL.
C15_Classification ==
    PageFetched =>
        /\ last_attempt.page.title = "Not Found" =>
              AttemptedData = Sentinel("no viewstats page available")
        /\ HasViewsElement => ViewsOutcome

\* the not-tracked check lets the page of the last attempt through
PassesNotTrackedCheck ==
    /\ last_attempt.page.title = "ok"
    /\ last_attempt.page.tracking = "none"
    /\ last_attempt.page.body = "ok"

\* no step after the views step raises anything but a timeout
NoLaterException ==
    \A f \in {"subs", "rev", "longshort"} : last_attempt.page[f] \notin Raised

\* C15 amended: a fetched page whose title holds 'Not Found' gives 'no
\* viewstats page available' with the metrics blank; a fetched page that
\* the not-tracked check lets through (title, not-tracking elements, body
\* text), that has a views element, and on which no later step raises an
\* exception other than a timeout, gives the views text and the profile
\* URL; a page with a views element that the check classifies as not
\* tracked gives 'no viewstats page available'.
C15_ClassificationAfterCheck ==
    PageFetched =>
        /\ last_attempt.page.title = "Not Found" =>
              AttemptedData = Sentinel("no viewstats page available")
        /\ (PassesNotTrackedCheck /\ HasViewsElement /\ NoLaterException)
              => ViewsOutcome
        /\ (~PassesNotTrackedCheck /\ HasViewsElement) =>
              AttemptedData = Sentinel("no viewstats page available")

\* a row named 'Unknown' with a /c/ URL met a page with views under the
\* alternative selector
C15_Witness ==
    /\ PageFetched
    /\ last_attempt.page.views = "alt"
    /\ AttemptedRow.Username = "Unknown"
    /\ AttemptedRow.ViewStats_Profile_URL = Cell("viewstats", "bar")
    /\ AttemptedRow.Views_Last_28_Days = "1.2M"

\* a profile cell that holds an outcome: a profile URL or a sentinel
DeterminedOutcome(cell) ==
    \/ cell.kind = "viewstats"
    \/ cell \in {Text("no username available"),
                 Text("no viewstats page available"),
                 Text("no viewstats data available"),
                 Text("webdriver error"),
                 Text("error occurred")}

\* C16: after an enrichment run that ran to its end, every row it selected
\* holds a profile URL or one of the five sentinels in the file, so the
\* next run selects no row, loads no page and leaves the file as it is;
\* rows that ended in 'webdriver error' or 'error occurred' are not
\* retried.
C16_SecondRunSelectsNone ==
    /\ []((epc = "idle" /\ exit = "complete") =>
            /\ \A i \in Selected :
                  DeterminedOutcome(disk[i].ViewStats_Profile_URL)
            /\ UnattemptedRows(disk) = {})
    /\ [][(epc = "idle" /\ exit = "complete" /\ eruns' = eruns + 1) =>
            /\ channels_to_process' = <<>>
            /\ page_loads' = {}
            /\ exit' = "nothing to process"
            /\ epc' = "idle"
            /\ disk' = disk]_vars

\* the run after one that left '@foo' with 'webdriver error' found nothing
\* to process
C16_Witness ==
    /\ eruns = 2
    /\ epc = "idle"
    /\ exit = "nothing to process"
    /\ Len(disk) >= 1
    /\ disk[1].Username = "@foo"
    /\ disk[1].ViewStats_Profile_URL = Text("webdriver error")

====
